---- MODULE Spec2Model ----
(***************************************************************************)
(* State-machine model of the sensor dashboard view (App.tsx and its       *)
(* storing variant): the MQTT connection lifecycle, the message handler,   *)
(* the historical query client (fetchData) and the derived presentation.   *)
(***************************************************************************)
EXTENDS Integers, Sequences, FiniteSets, TLC

VARIABLES
    variant,         \* which App is mounted: "view" (App.tsx) or "store" (storing variant)
    tzOffset,        \* the browser's time zone, hours east of UTC
    now,             \* wall clock: seconds elapsed since StartInstant
    mounted,         \* the view is mounted (effect ran, cleanup not yet)
    clientEnds,      \* number of client.end() calls on the connection opened at mount
    subscribed,      \* topics client.subscribe has been called with
    mqttConnected,   \* useState(false)
    realTimeData,    \* useState(null)
    lastUpdate,      \* useState(null)
    historicalData,  \* useState([])
    isLoading,       \* useState(false)
    selectedDate,    \* useState(new Date())
    reads,           \* GET requests in flight, in issue order
    writes,          \* POST requests in flight, in issue order (storing variant)
    uncaught,        \* an exception escaped an event handler
    lastEvent,       \* history: the event handled most recently
    lastConnectionEvent  \* history: the latest of the connect and error events, or "none"

vars == <<variant, tzOffset, now, mounted, clientEnds, subscribed, mqttConnected,
          realTimeData, lastUpdate, historicalData, isLoading, selectedDate,
          reads, writes, uncaught, lastEvent, lastConnectionEvent>>

\* ------------------------------------------------------------------ bounds
MaxTicks == 1
MaxReads == 2
MaxWrites == 2
MaxSeries == 2

\* --------------------------------------------------------------- constants
MQTT_TOPIC == "sensor/data"
OtherTopic == "sensor/status"
NULL == [type |-> "null"]

\* History labels: which event was handled last, and its input.
Event(kind, arg, text) == [kind |-> kind, arg |-> arg, text |-> text]
Settled(response) == Event("settled", response.kind, response.text)

\* ---------------------------------------------------------------- calendar
SecondsPerHour == 60 * 60
SecondsPerDay == 24 * SecondsPerHour

IsLeap(y) == (y % 4 = 0 /\ y % 100 # 0) \/ y % 400 = 0

DaysInMonth(y, m) ==
    IF m = 2 THEN (IF IsLeap(y) THEN 29 ELSE 28)
    ELSE IF m \in {4, 6, 9, 11} THEN 30 ELSE 31

PrevDay(d) ==
    IF d[3] > 1 THEN <<d[1], d[2], d[3] - 1>>
    ELSE IF d[2] > 1 THEN <<d[1], d[2] - 1, DaysInMonth(d[1], d[2] - 1)>>
    ELSE <<d[1] - 1, 12, 31>>

NextDay(d) ==
    IF d[3] < DaysInMonth(d[1], d[2]) THEN <<d[1], d[2], d[3] + 1>>
    ELSE IF d[2] < 12 THEN <<d[1], d[2] + 1, 1>>
    ELSE <<d[1] + 1, 1, 1>>

\* A Date is an instant: its UTC calendar date and UTC second of the day.
\* Shift an instant's fields by s seconds, |s| < one day.
ShiftFields(t, s) ==
    LET x == t.sec + s IN
    IF x < 0 THEN [date |-> PrevDay(t.date), sec |-> x + SecondsPerDay]
    ELSE IF x >= SecondsPerDay THEN [date |-> NextDay(t.date), sec |-> x - SecondsPerDay]
    ELSE [date |-> t.date, sec |-> x]

\* The fields the local-time getters of Date read.
LocalFields(t, tz) == ShiftFields(t, tz * SecondsPerHour)

getDate(t, tz) == LocalFields(t, tz).date[3]
getMonth(t, tz) == LocalFields(t, tz).date[2] - 1
getFullYear(t, tz) == LocalFields(t, tz).date[1]

\* selectedDate.toISOString().split("T")[0]: the UTC calendar date.
toISODate(t) == t.date

\* new Date("YYYY-MM-DD"): a date-only string is read as UTC midnight.
DateFromInput(value) == [date |-> value, sec |-> 0]

\* new Date().toLocaleTimeString(): local hours, minutes, seconds.
toLocaleTimeString(t, tz) ==
    LET s == LocalFields(t, tz).sec IN
    [h |-> s \div SecondsPerHour, m |-> (s % SecondsPerHour) \div 60, s |-> s % 60]

StartInstant == [date |-> <<2024, 3, 7>>, sec |-> 86399]
DateNow(n) == ShiftFields(StartInstant, n)

TimeZones == {-5, 0, 7}
DateChoices == {<<2024, 3, 7>>, <<2024, 3, 1>>, <<2005, 1, 1>>}

\* ----------------------------------------------------------------- strings
\* Strings the code builds are sequences of one-character strings.
Digit(n) == CASE n = 0 -> "0" [] n = 1 -> "1" [] n = 2 -> "2" [] n = 3 -> "3"
              [] n = 4 -> "4" [] n = 5 -> "5" [] n = 6 -> "6" [] n = 7 -> "7"
              [] n = 8 -> "8" [] n = 9 -> "9"

RECURSIVE toString(_)
toString(n) == IF n < 10 THEN <<Digit(n)>> ELSE toString(n \div 10) \o <<Digit(n % 10)>>

RECURSIVE padStart(_, _, _)
padStart(s, len, c) == IF Len(s) >= len THEN s ELSE padStart(<<c>> \o s, len, c)

\* s.slice(-k)
sliceLast(s, k) == IF Len(s) <= k THEN s ELSE SubSeq(s, Len(s) - k + 1, Len(s))

formattedDate(t, tz) ==
    LET day == padStart(toString(getDate(t, tz)), 2, "0")
        month == padStart(toString(getMonth(t, tz) + 1), 2, "0")
        year == sliceLast(toString(getFullYear(t, tz)), 2)
    IN  day \o <<"_">> \o month \o <<"_">> \o year

API_URL(t, tz) == <<"http://localhost:8080/api/sensor/">> \o formattedDate(t, tz)

\* -------------------------------------------------------------------- JSON
\* Payloads the broker can deliver on the topic.
MsgA == "{\"temperature\":200,\"humidity\":500}"
MsgB == "{\"temperature\":210,\"humidity\":480}"
MsgTruncated == "{\"temperature\":21"
MsgPlain == "temperature=200;humidity=500"
Payloads == {MsgA, MsgB, MsgTruncated, MsgPlain}

\* Bodies the read endpoint can answer with.
BodyEmpty == "[]"
BodyOne == "[{\"timestamp\":\"2024-03-07T10:00:00Z\",\"temperature\":215,\"humidity\":470}]"
BodyTwo == "[{\"timestamp\":\"2024-03-07T12:00:00Z\",\"temperature\":230,\"humidity\":450},{\"timestamp\":\"2024-03-07T09:00:00Z\",\"temperature\":190,\"humidity\":520}]"
BodyDecimal == "[{\"timestamp\":\"2024-03-07T14:00:00Z\",\"temperature\":21.5,\"humidity\":50.04}]"
BodyHtml == "<html>502 Bad Gateway</html>"
Bodies == {BodyEmpty, BodyOne, BodyTwo, BodyDecimal, BodyHtml}

\* A JSON number with up to two decimals, held as a count of hundredths.
Hundredths == 10 * 10
Decimal(units, hundredths) == units * Hundredths + hundredths

Reading(t, h) == [temperature |-> Decimal(t, 0), humidity |-> Decimal(h, 0)]
HistoricalReading(ts, t, h) ==
    [timestamp |-> ts, temperature |-> Decimal(t, 0), humidity |-> Decimal(h, 0)]

\* JSON.parse / Response.json on the texts above: the decoded value, or a throw.
JSONParse(text) ==
    CASE text = MsgA -> [ok |-> TRUE, value |-> Reading(200, 500)]
      [] text = MsgB -> [ok |-> TRUE, value |-> Reading(210, 480)]
      [] text = BodyEmpty -> [ok |-> TRUE, value |-> <<>>]
      [] text = BodyOne ->
            [ok |-> TRUE, value |-> <<HistoricalReading("2024-03-07T10:00:00Z", 215, 470)>>]
      [] text = BodyTwo ->
            [ok |-> TRUE, value |-> <<HistoricalReading("2024-03-07T12:00:00Z", 230, 450),
                                      HistoricalReading("2024-03-07T09:00:00Z", 190, 520)>>]
      [] text = BodyDecimal ->
            [ok |-> TRUE, value |-> <<[timestamp |-> "2024-03-07T14:00:00Z",
                                       temperature |-> Decimal(21, 50),
                                       humidity |-> Decimal(50, 4)]>>]
      [] OTHER -> [ok |-> FALSE, value |-> NULL]

\* JSON.stringify of a decoded reading.
JSONStringify(v) == CHOOSE text \in Payloads : JSONParse(text).ok /\ JSONParse(text).value = v

\* What can come back for a request: the transport fails, or a body arrives.
NetworkError == [kind |-> "error", text |-> ""]
Responses == {NetworkError} \cup {[kind |-> "body", text |-> b] : b \in Bodies}

\* The timestamp the store assigns to a written record.
ServerTimestamps == {"2024-03-07T11:00:00Z"}

\* -------------------------------------------------------------------- Init
InitState(zones) ==
    /\ tzOffset \in zones
    /\ now = 0
    /\ mounted = TRUE
    /\ clientEnds = 0
    /\ subscribed = {}
    /\ mqttConnected = FALSE
    /\ realTimeData = NULL
    /\ lastUpdate = NULL
    /\ historicalData = <<>>
    /\ isLoading = FALSE
    /\ selectedDate = DateNow(0)
    /\ reads = <<>>
    /\ writes = <<>>
    /\ uncaught = FALSE
    /\ lastEvent = Event("mount", "", "")
    /\ lastConnectionEvent = "none"

\* ------------------------------------------------------------ environment
\* The wall clock advances.
Tick ==
    /\ now < MaxTicks
    /\ now' = now + 1
    /\ lastEvent' = Event("tick", "", "")
    /\ UNCHANGED lastConnectionEvent
    /\ UNCHANGED <<variant, tzOffset, mounted, clientEnds, subscribed, mqttConnected,
                   realTimeData, lastUpdate, historicalData, isLoading, selectedDate,
                   reads, writes, uncaught>>

\* ------------------------------------------------------- connection events
\* A plausible slip: the connect handler subscribes but does not flip the flag.
OnConnectOnlySubscribes ==
    /\ mounted
    /\ subscribed' = subscribed \cup {MQTT_TOPIC}
    /\ lastEvent' = Event("connect", "", "")
    /\ lastConnectionEvent' = "connect"
    /\ UNCHANGED <<variant, tzOffset, now, mounted, clientEnds, mqttConnected, realTimeData,
                   lastUpdate, historicalData, isLoading, selectedDate, reads, writes,
                   uncaught>>

\* client.on("connect")
OnConnect ==
    /\ mounted
    /\ mqttConnected' = TRUE
    /\ subscribed' = subscribed \cup {MQTT_TOPIC}
    /\ lastEvent' = Event("connect", "", "")
    /\ lastConnectionEvent' = "connect"
    /\ UNCHANGED <<variant, tzOffset, now, mounted, clientEnds, realTimeData, lastUpdate,
                   historicalData, isLoading, selectedDate, reads, writes, uncaught>>

\* A plausible slip: an error also resets the live reading.
OnErrorResets ==
    /\ mounted
    /\ mqttConnected' = FALSE
    /\ realTimeData' = NULL
    /\ lastUpdate' = NULL
    /\ lastEvent' = Event("error", "", "")
    /\ lastConnectionEvent' = "error"
    /\ UNCHANGED <<variant, tzOffset, now, mounted, clientEnds, subscribed,
                   historicalData, isLoading, selectedDate, reads, writes, uncaught>>

\* client.on("error")
OnError ==
    /\ mounted
    /\ mqttConnected' = FALSE
    /\ lastEvent' = Event("error", "", "")
    /\ lastConnectionEvent' = "error"
    /\ UNCHANGED <<variant, tzOffset, now, mounted, clientEnds, subscribed, realTimeData,
                   lastUpdate, historicalData, isLoading, selectedDate, reads, writes,
                   uncaught>>

\* A plausible slip: the connection is ended only while connected.
CleanupIfConnected == clientEnds' = IF mqttConnected THEN clientEnds + 1 ELSE clientEnds

\* return () => { client.end(); }
Cleanup == clientEnds' = clientEnds + 1

\* The view unmounts: the effect's cleanup runs, and the view handles nothing more.
Unmount ==
    /\ mounted
    /\ mounted' = FALSE
    /\ Cleanup
    /\ lastEvent' = Event("unmount", "", "")
    /\ UNCHANGED lastConnectionEvent
    /\ UNCHANGED <<variant, tzOffset, now, subscribed, mqttConnected, realTimeData,
                   lastUpdate, historicalData, isLoading, selectedDate, reads, writes,
                   uncaught>>

\* --------------------------------------------------------- message handler
\* A plausible slip: the receipt time is not recorded.
HandleMessageNoStamp(topic, message) ==
    IF topic = MQTT_TOPIC
    THEN LET newData == JSONParse(message) IN
         IF newData.ok
         THEN /\ realTimeData' = newData.value
              /\ UNCHANGED <<lastUpdate, historicalData, writes, uncaught>>
         ELSE UNCHANGED <<realTimeData, lastUpdate, historicalData, writes, uncaught>>
    ELSE UNCHANGED <<realTimeData, lastUpdate, historicalData, writes, uncaught>>

\* A plausible slip: JSON.parse sits outside the try block.
HandleMessageUnguarded(topic, message) ==
    IF topic = MQTT_TOPIC
    THEN LET newData == JSONParse(message) IN
         IF newData.ok
         THEN /\ realTimeData' = newData.value
              /\ lastUpdate' = toLocaleTimeString(DateNow(now), tzOffset)
              /\ UNCHANGED <<historicalData, writes, uncaught>>
         ELSE /\ uncaught' = TRUE
              /\ UNCHANGED <<realTimeData, lastUpdate, historicalData, writes>>
    ELSE UNCHANGED <<realTimeData, lastUpdate, historicalData, writes, uncaught>>

\* client.on("message") of App.tsx: the handler's effect on the view's state.
HandleMessage(topic, message) ==
    IF topic = MQTT_TOPIC
    THEN LET newData == JSONParse(message) IN
         IF newData.ok
         THEN /\ realTimeData' = newData.value
              /\ lastUpdate' = toLocaleTimeString(DateNow(now), tzOffset)
              /\ UNCHANGED <<historicalData, writes, uncaught>>
         ELSE \* catch (error): console.error only
              UNCHANGED <<realTimeData, lastUpdate, historicalData, writes, uncaught>>
    ELSE UNCHANGED <<realTimeData, lastUpdate, historicalData, writes, uncaught>>

\* client.on("message") of the storing variant: also POSTs the decoded reading.
HandleMessageStore(topic, message) ==
    IF topic = MQTT_TOPIC
    THEN LET newData == JSONParse(message) IN
         IF newData.ok
         THEN /\ realTimeData' = newData.value
              /\ lastUpdate' = toLocaleTimeString(DateNow(now), tzOffset)
              /\ writes' = Append(writes, [body |-> JSONStringify(newData.value)])
              /\ UNCHANGED <<historicalData, uncaught>>
         ELSE UNCHANGED <<realTimeData, lastUpdate, historicalData, writes, uncaught>>
    ELSE UNCHANGED <<realTimeData, lastUpdate, historicalData, writes, uncaught>>

\* A message arrives while App.tsx is mounted and subscribed.
OnMessage(topic, message) ==
    /\ mounted
    /\ variant = "view"
    /\ subscribed # {}
    /\ lastEvent' = Event("message", topic, message)
    /\ UNCHANGED lastConnectionEvent
    /\ HandleMessage(topic, message)
    /\ UNCHANGED <<variant, tzOffset, now, mounted, clientEnds, subscribed, mqttConnected,
                   isLoading, selectedDate, reads>>

\* A message arrives while the storing variant is mounted and subscribed.
OnMessageStore(topic, message) ==
    /\ mounted
    /\ variant = "store"
    /\ subscribed # {}
    /\ (topic = MQTT_TOPIC /\ JSONParse(message).ok) => Len(writes) < MaxWrites
    /\ lastEvent' = Event("message", topic, message)
    /\ UNCHANGED lastConnectionEvent
    /\ HandleMessageStore(topic, message)
    /\ UNCHANGED <<variant, tzOffset, now, mounted, clientEnds, subscribed, mqttConnected,
                   isLoading, selectedDate, reads>>

\* Remove the i-th element of a sequence.
RemoveAt(s, i) == SubSeq(s, 1, i - 1) \o SubSeq(s, i + 1, Len(s))

\* A plausible slip: setHistoricalData([...historicalData, savedData]) appends to
\* the array the effect's closure captured at mount, which is the empty one.
WriteThenStale(i, ts) ==
    /\ mounted
    /\ i \in 1..Len(writes)
    /\ Len(historicalData) < MaxSeries
    /\ LET savedData == [timestamp |-> ts] @@ JSONParse(writes[i].body).value
       IN  historicalData' = <<savedData>>
    /\ writes' = RemoveAt(writes, i)
    /\ lastEvent' = Event("stored", ts, writes[i].body)
    /\ UNCHANGED lastConnectionEvent
    /\ UNCHANGED <<variant, tzOffset, now, mounted, clientEnds, subscribed, mqttConnected,
                   realTimeData, lastUpdate, isLoading, selectedDate, reads, uncaught>>

\* .then((savedData) => setHistoricalData((prevData) => [...prevData, savedData]))
\* savedData is the store's echo of the posted reading with its timestamp.
WriteThen(i, ts) ==
    /\ mounted
    /\ i \in 1..Len(writes)
    /\ Len(historicalData) < MaxSeries
    /\ LET savedData == [timestamp |-> ts] @@ JSONParse(writes[i].body).value
       IN  historicalData' = Append(historicalData, savedData)
    /\ writes' = RemoveAt(writes, i)
    /\ lastEvent' = Event("stored", ts, writes[i].body)
    /\ UNCHANGED lastConnectionEvent
    /\ UNCHANGED <<variant, tzOffset, now, mounted, clientEnds, subscribed, mqttConnected,
                   realTimeData, lastUpdate, isLoading, selectedDate, reads, uncaught>>

\* A plausible slip: a failed write takes the live reading back.
WriteCatchRollsBack(i) ==
    /\ mounted
    /\ i \in 1..Len(writes)
    /\ writes' = RemoveAt(writes, i)
    /\ realTimeData' = NULL
    /\ lastUpdate' = NULL
    /\ lastEvent' = Event("storeFailed", "", writes[i].body)
    /\ UNCHANGED lastConnectionEvent
    /\ UNCHANGED <<variant, tzOffset, now, mounted, clientEnds, subscribed, mqttConnected,
                   historicalData, isLoading, selectedDate, reads, uncaught>>

\* .catch((err) => console.error("Error storing data:", err))
WriteCatch(i) ==
    /\ mounted
    /\ i \in 1..Len(writes)
    /\ writes' = RemoveAt(writes, i)
    /\ lastEvent' = Event("storeFailed", "", writes[i].body)
    /\ UNCHANGED lastConnectionEvent
    /\ UNCHANGED <<variant, tzOffset, now, mounted, clientEnds, subscribed, mqttConnected,
                   realTimeData, lastUpdate, historicalData, isLoading, selectedDate,
                   reads, uncaught>>

\* --------------------------------------------------- historical query client
\* onChange={(e) => setSelectedDate(new Date(e.target.value))}
SelectDate(value) ==
    /\ mounted
    /\ selectedDate' = DateFromInput(value)
    /\ lastEvent' = Event("select", "", "")
    /\ UNCHANGED lastConnectionEvent
    /\ UNCHANGED <<variant, tzOffset, now, mounted, clientEnds, subscribed, mqttConnected,
                   realTimeData, lastUpdate, historicalData, isLoading, reads, writes,
                   uncaught>>

\* A plausible slip: the button is never disabled.
FetchButtonAlwaysEnabled == TRUE

\* The Fetch Data button: disabled={isLoading}
FetchButtonEnabled == ~isLoading

\* A plausible slip: the loading flag is never raised.
fetchDataNoFlag ==
    /\ UNCHANGED isLoading
    /\ reads' = Append(reads, [url |-> API_URL(selectedDate, tzOffset),
                               selected |-> selectedDate])
    /\ UNCHANGED <<historicalData, realTimeData, lastUpdate, mqttConnected>>

\* fetchData: the request carries the URL; "selected" is the Date it was built from.
fetchData ==
    /\ isLoading' = TRUE
    /\ reads' = Append(reads, [url |-> API_URL(selectedDate, tzOffset),
                               selected |-> selectedDate])
    /\ UNCHANGED <<historicalData, realTimeData, lastUpdate, mqttConnected>>

\* onClick={fetchData}
ClickFetch ==
    /\ mounted
    /\ FetchButtonEnabled
    /\ Len(reads) < MaxReads
    /\ fetchData
    /\ lastEvent' = Event("click", "", "")
    /\ UNCHANGED lastConnectionEvent
    /\ UNCHANGED <<variant, tzOffset, now, mounted, clientEnds, subscribed, selectedDate,
                   writes, uncaught>>

\* A plausible slip: the response is merged into the series.
FetchThenAppends(data) ==
    /\ historicalData' = historicalData \o data
    /\ isLoading' = FALSE

\* .then((data) => { setHistoricalData(data); setIsLoading(false); })
FetchThenEffect(data) ==
    /\ historicalData' = data
    /\ isLoading' = FALSE

\* A response arrived and its body decoded.
FetchThen(i, body) ==
    /\ mounted
    /\ i \in 1..Len(reads)
    /\ JSONParse(body).ok
    /\ FetchThenEffect(JSONParse(body).value)
    /\ reads' = RemoveAt(reads, i)
    /\ lastEvent' = Settled([kind |-> "body", text |-> body])
    /\ UNCHANGED lastConnectionEvent
    /\ UNCHANGED <<variant, tzOffset, now, mounted, clientEnds, subscribed, mqttConnected,
                   realTimeData, lastUpdate, selectedDate, writes, uncaught>>

\* A plausible slip: a failed request clears the series.
FetchCatchClears ==
    /\ isLoading' = FALSE
    /\ historicalData' = <<>>

\* .catch((err) => { console.error(...); setIsLoading(false); })
FetchCatchEffect ==
    /\ isLoading' = FALSE
    /\ UNCHANGED historicalData

\* The request failed, or its body did not decode.
FetchCatch(i, response) ==
    /\ mounted
    /\ i \in 1..Len(reads)
    /\ response.kind = "error" \/ ~JSONParse(response.text).ok
    /\ FetchCatchEffect
    /\ reads' = RemoveAt(reads, i)
    /\ lastEvent' = Settled(response)
    /\ UNCHANGED lastConnectionEvent
    /\ UNCHANGED <<variant, tzOffset, now, mounted, clientEnds, subscribed, mqttConnected,
                   realTimeData, lastUpdate, selectedDate, writes, uncaught>>

\* -------------------------------------------------------------------- Next
\* ---------------------------------------------------------------- the chart
\* new Date(timestamp).getTime(), in seconds: every timestamp here falls on a
\* whole second of 2024-03-07, the 19789th day after the epoch.
getTime(timestamp) ==
    LET midnight == 19789 * SecondsPerDay
    IN  CASE timestamp = "2024-03-07T09:00:00Z" -> midnight + 9 * SecondsPerHour
          [] timestamp = "2024-03-07T10:00:00Z" -> midnight + 10 * SecondsPerHour
          [] timestamp = "2024-03-07T11:00:00Z" -> midnight + 11 * SecondsPerHour
          [] timestamp = "2024-03-07T12:00:00Z" -> midnight + 12 * SecondsPerHour
          [] timestamp = "2024-03-07T14:00:00Z" -> midnight + 14 * SecondsPerHour

\* (a, b) => new Date(a.timestamp).getTime() - new Date(b.timestamp).getTime()
compare(a, b) == getTime(a.timestamp) - getTime(b.timestamp)

\* Array.prototype.sort is stable: an element goes behind every element the
\* comparator does not put after it.
RECURSIVE InsertSorted(_, _)
InsertSorted(sorted, x) ==
    IF Len(sorted) = 0 THEN <<x>>
    ELSE IF compare(sorted[Len(sorted)], x) <= 0 THEN Append(sorted, x)
    ELSE Append(InsertSorted(SubSeq(sorted, 1, Len(sorted) - 1), x), sorted[Len(sorted)])

RECURSIVE SortFrom(_, _)
SortFrom(sorted, rest) ==
    IF Len(rest) = 0 THEN sorted ELSE SortFrom(InsertSorted(sorted, rest[1]), Tail(rest))

sort(array) == SortFrom(<<>>, array)

\* A plausible slip: historicalData.sort(...) sorts the state's own array.
SortInPlace(series) == [sortedData |-> sort(series), historicalData |-> sort(series)]

\* [...historicalData].sort(...): the copy is sorted, the prop is left as it is.
SortCopy(series) == [sortedData |-> sort(series), historicalData |-> series]

\* The series handed to the chart.
sortedData == SortCopy(historicalData).sortedData

\* The chart renders: App.tsx mounts LineChart only for a non-empty series,
\* the storing variant sorts on every render.
Render ==
    /\ mounted
    /\ variant = "view" => Len(historicalData) > 0
    /\ historicalData' = SortCopy(historicalData).historicalData
    /\ UNCHANGED <<variant, tzOffset, now, mounted, clientEnds, subscribed, mqttConnected,
                   realTimeData, lastUpdate, isLoading, selectedDate, reads, writes,
                   uncaught, lastEvent, lastConnectionEvent>>

Topics == {MQTT_TOPIC, OtherTopic}

\* The storing variant's date handling is the same code as App.tsx's, so it
\* runs in one time zone with one date to pick.
StoreZones == {7}
StoreDates == {<<2024, 3, 7>>}

\* The dates the user picks from.
UserDates == IF variant = "view" THEN DateChoices ELSE StoreDates

\* Events both variants share.
Common ==
    \/ Tick
    \/ OnConnect
    \/ OnError
    \/ Unmount
    \/ Render
    \/ \E value \in UserDates : SelectDate(value)
    \/ ClickFetch
    \/ \E i \in 1..MaxReads, body \in Bodies : FetchThen(i, body)
    \/ \E i \in 1..MaxReads, response \in Responses : FetchCatch(i, response)

\* App.tsx
Init == variant = "view" /\ InitState(TimeZones)

Next ==
    \/ Common
    \/ \E topic \in Topics, message \in Payloads : OnMessage(topic, message)

Spec == Init /\ [][Next]_vars

\* The storing variant
InitStore == variant = "store" /\ InitState(StoreZones)

NextStore ==
    \/ Common
    \/ \E topic \in Topics, message \in Payloads : OnMessageStore(topic, message)
    \/ \E i \in 1..MaxWrites, ts \in ServerTimestamps : WriteThen(i, ts)
    \/ \E i \in 1..MaxWrites : WriteCatch(i)

SpecStore == InitStore /\ [][NextStore]_vars

\* Either variant is mounted.
InitBoth == Init \/ InitStore

NextBoth ==
    \/ Common
    \/ \E topic \in Topics, message \in Payloads : OnMessage(topic, message)
    \/ \E topic \in Topics, message \in Payloads : OnMessageStore(topic, message)
    \/ \E i \in 1..MaxWrites, ts \in ServerTimestamps : WriteThen(i, ts)
    \/ \E i \in 1..MaxWrites : WriteCatch(i)

SpecBoth == InitBoth /\ [][NextBoth]_vars

\* ------------------------------------------------------- presentation model
\* Numbers as the render computes them: a quotient, or one of JavaScript's
\* non-finite results.
Num(n, d) == [type |-> "number", num |-> n, den |-> d]
NaN == [type |-> "NaN", num |-> 0, den |-> 0]
PosInfinity == [type |-> "Infinity", num |-> 1, den |-> 0]
NegInfinity == [type |-> "-Infinity", num |-> -1, den |-> 0]

\* historicalData.map((d) => d.temperature), .map((d) => d.humidity)
Temperatures(series) == [i \in 1..Len(series) |-> series[i].temperature]
Humidities(series) == [i \in 1..Len(series) |-> series[i].humidity]

\* Math.max(...xs), Math.min(...xs)
MathMax(xs) ==
    IF Len(xs) = 0 THEN NegInfinity
    ELSE Num(CHOOSE x \in {xs[i] : i \in 1..Len(xs)} :
                 \A j \in 1..Len(xs) : xs[j] <= x, Hundredths)

MathMin(xs) ==
    IF Len(xs) = 0 THEN PosInfinity
    ELSE Num(CHOOSE x \in {xs[i] : i \in 1..Len(xs)} :
                 \A j \in 1..Len(xs) : x <= xs[j], Hundredths)

\* xs.reduce((sum, x) => sum + x, 0)
RECURSIVE Sum(_)
Sum(xs) == IF Len(xs) = 0 THEN 0 ELSE xs[1] + Sum(Tail(xs))

\* reduce(...) / historicalData.length: 0 / 0 is NaN
Average(xs) == IF Len(xs) = 0 THEN NaN ELSE Num(Sum(xs), Len(xs) * Hundredths)

DailySummary(series) ==
    [tempMax |-> MathMax(Temperatures(series)),
     tempMin |-> MathMin(Temperatures(series)),
     tempAvg |-> Average(Temperatures(series)),
     humMax |-> MathMax(Humidities(series)),
     humMin |-> MathMin(Humidities(series)),
     humAvg |-> Average(Humidities(series))]

SummaryFields == {"tempMax", "tempMin", "tempAvg", "humMax", "humMin", "humAvg"}

\* A plausible slip: the summary is rendered without the length guard.
SummaryAlwaysVisible == TRUE

\* {historicalData.length > 0 && ( ...Daily Summary... )}
SummaryVisible == Len(historicalData) > 0

Hidden == [f \in SummaryFields |-> [type |-> "hidden", num |-> 0, den |-> 0]]

\* What the Daily Summary section shows.
Summary == IF SummaryVisible THEN DailySummary(historicalData) ELSE Hidden

\* Number.prototype.toFixed(digits): the nearest multiple of 10^-digits, the
\* larger one on a tie, the sign handled apart; a non-finite value prints as it is.
RECURSIVE Pow10(_)
Pow10(k) == IF k = 0 THEN 1 ELSE 10 * Pow10(k - 1)

RoundHalfUp(n, d) == (2 * n + d) \div (2 * d)

toFixed(x, digits) ==
    IF x.type # "number" THEN x
    ELSE IF x.num < 0
         THEN Num(0 - RoundHalfUp((0 - x.num) * Pow10(digits), x.den), Pow10(digits))
         ELSE Num(RoundHalfUp(x.num * Pow10(digits), x.den), Pow10(digits))

\* The six figures as App.tsx prints them: temperatures with one decimal,
\* humidity extremes with two, the humidity mean with one.
DisplayedSummaryView(series) ==
    [tempMax |-> toFixed(MathMax(Temperatures(series)), 1),
     tempMin |-> toFixed(MathMin(Temperatures(series)), 1),
     tempAvg |-> toFixed(Average(Temperatures(series)), 1),
     humMax |-> toFixed(MathMax(Humidities(series)), 2),
     humMin |-> toFixed(MathMin(Humidities(series)), 2),
     humAvg |-> toFixed(Average(Humidities(series)), 1)]

\* The storing variant prints the extremes as they are and the means with two
\* decimals.
DisplayedSummaryStore(series) ==
    [tempMax |-> MathMax(Temperatures(series)),
     tempMin |-> MathMin(Temperatures(series)),
     tempAvg |-> toFixed(Average(Temperatures(series)), 2),
     humMax |-> MathMax(Humidities(series)),
     humMin |-> MathMin(Humidities(series)),
     humAvg |-> toFixed(Average(Humidities(series)), 2)]

\* What the Daily Summary section prints.
DisplayedSummary ==
    IF ~SummaryVisible THEN Hidden
    ELSE IF variant = "view" THEN DisplayedSummaryView(historicalData)
    ELSE DisplayedSummaryStore(historicalData)

\* Order of two printed figures.
LessOrEqual(a, b) == a.num * b.den <= b.num * a.den

\* ================================================================== claims
IsValidDelivery(e) ==
    e.kind = "message" /\ e.arg = MQTT_TOPIC /\ JSONParse(e.text).ok

IsMalformedDelivery(e) ==
    e.kind = "message" /\ e.arg = MQTT_TOPIC /\ ~JSONParse(e.text).ok

IsFailedRead(e) ==
    e.kind = "settled" /\ (e.arg = "error" \/ ~JSONParse(e.text).ok)

IsSuccessfulRead(e) ==
    e.kind = "settled" /\ e.arg = "body" /\ JSONParse(e.text).ok

\* C1: right after a message with a valid Reading payload is handled, the latest
\* reading is exactly the decoded payload and the last-update time is the local
\* time of receipt; so the latest reading is always that of the most recent one.
C1_LatestReading ==
    IsValidDelivery(lastEvent) =>
        /\ realTimeData = JSONParse(lastEvent.text).value
        /\ lastUpdate = toLocaleTimeString(DateNow(now), tzOffset)

\* C1 witness: {210,480} was delivered after the clock advanced, and is shown.
C1_Witness ==
    /\ IsValidDelivery(lastEvent)
    /\ lastEvent.text = MsgB
    /\ realTimeData = Reading(210, 480)
    /\ now > 0

\* C2: handling a malformed payload on the subscribed topic changes none of the
\* latest reading, the last-update time, the historical series and the
\* connection state, issues no write request, and lets no exception escape.
C2_MalformedIgnored ==
    [][\A message \in Payloads :
          (/\ ~JSONParse(message).ok
           /\ OnMessage(MQTT_TOPIC, message) \/ OnMessageStore(MQTT_TOPIC, message)) =>
              /\ UNCHANGED <<realTimeData, lastUpdate, historicalData, mqttConnected,
                             reads, writes>>
              /\ ~uncaught']_vars

\* C2 witness: a malformed payload was handled while a reading was on display.
C2_Witness ==
    /\ IsMalformedDelivery(lastEvent)
    /\ realTimeData # NULL
    /\ mqttConnected
    /\ ~uncaught

\* C3: a connect event leaves the state Connected with the fixed topic
\* subscribed; an error event leaves it Disconnected and does not touch the
\* latest reading or its timestamp.
C3_ConnectThenError ==
    /\ [][OnConnect => (mqttConnected' /\ MQTT_TOPIC \in subscribed')]_vars
    /\ [][OnError => (~mqttConnected' /\ UNCHANGED <<realTimeData, lastUpdate>>)]_vars

\* C3 witness: an error arrived after a connect, with a reading on display.
C3_Witness ==
    /\ lastEvent.kind = "error"
    /\ MQTT_TOPIC \in subscribed
    /\ ~mqttConnected
    /\ realTimeData # NULL

\* C4: whenever a historical read request is outstanding the loading flag is true.
C4_LoadingWhileOutstanding == reads # <<>> => isLoading

\* C4 witness: a second request is outstanding after an earlier one succeeded.
C4_Witness ==
    /\ lastEvent.kind = "click"
    /\ reads # <<>>
    /\ isLoading
    /\ historicalData # <<>>

\* C5 as stated: while a request is outstanding the user can trigger another.
C5_OverlapPossible ==
    (mounted /\ reads # <<>> /\ Len(reads) < MaxReads) => ENABLED ClickFetch

\* C5 amended: the Fetch button is disabled while a request is outstanding, so
\* requests never overlap: at most one historical read is in flight.
C5_NoOverlap ==
    /\ Len(reads) <= 1
    /\ (mounted /\ reads # <<>>) => ~ENABLED ClickFetch

\* C5 witness: one request is in flight and the button is disabled.
C5_Witness ==
    /\ mounted
    /\ Len(reads) = 1
    /\ ~FetchButtonEnabled

\* C6: a failed read (network error or undecodable body) leaves the series, the
\* latest reading and the connection state as they were, clears the loading
\* flag, and leaves the Fetch button enabled.
C6_FailedReadPreserves ==
    [][\A i \in 1..MaxReads, response \in Responses :
          FetchCatch(i, response) =>
              /\ UNCHANGED <<historicalData, realTimeData, lastUpdate, mqttConnected>>
              /\ ~isLoading'
              /\ FetchButtonEnabled']_vars

\* C6 witness: a read failed while a non-empty series was on display.
C6_Witness ==
    /\ IsFailedRead(lastEvent)
    /\ historicalData # <<>>
    /\ ~isLoading
    /\ reads = <<>>

\* C7: right after a read succeeds the series is exactly the returned sequence.
C7_ReplacedWholesale ==
    IsSuccessfulRead(lastEvent) => historicalData = JSONParse(lastEvent.text).value

\* C7 witness: the one-record response is the whole series.
C7_Witness ==
    /\ IsSuccessfulRead(lastEvent)
    /\ lastEvent.text = BodyOne
    /\ Len(historicalData) = 1

\* C8: with an empty series the summary is not rendered, and a rendered summary
\* never holds the result of a division by zero or of an empty max/min.
C8_SummaryGuarded ==
    /\ Len(historicalData) = 0 => Summary = Hidden
    /\ \A f \in SummaryFields : Summary[f].type \in {"number", "hidden"}
    /\ \A f \in SummaryFields : Summary[f].type = "number" => Summary[f].den # 0

\* C8 witness: a query returned an empty array and the summary is hidden.
C8_Witness ==
    /\ IsSuccessfulRead(lastEvent)
    /\ lastEvent.text = BodyEmpty
    /\ historicalData = <<>>
    /\ Summary = Hidden

\* C9: the connection is not ended while the view is mounted, and it has been
\* ended exactly once after unmount, whatever the connection state was.
C9_ReleasedOnce == clientEnds = (IF mounted THEN 0 ELSE 1)

\* C9 witness: the view unmounted while Disconnected after an error.
C9_Witness ==
    /\ ~mounted
    /\ clientEnds = 1
    /\ MQTT_TOPIC \in subscribed
    /\ ~mqttConnected

\* DD_MM_YY of a calendar date, as the wire format prescribes.
WireDate(d) ==
    padStart(toString(d[3]), 2, "0") \o <<"_">> \o padStart(toString(d[2]), 2, "0")
        \o <<"_">> \o sliceLast(padStart(toString(d[1]), 2, "0"), 2)

\* C10: a request built for a date chosen in the date input asks for
\* /api/sensor/{DD_MM_YY} of that date; 2024-03-07 gives 07_03_24.
C10_WireDate ==
    \A i \in 1..Len(reads) :
        LET r == reads[i] IN
        /\ r.selected.sec = 0 =>
               r.url = <<"http://localhost:8080/api/sensor/">> \o WireDate(r.selected.date)
        /\ r.selected = DateFromInput(<<2024, 3, 7>>) =>
               r.url = <<"http://localhost:8080/api/sensor/",
                         "0", "7", "_", "0", "3", "_", "2", "4">>

\* C11: in the storing variant a valid payload puts one POST in flight whose
\* body decodes to the reading just shown; a successful write appends the
\* store's record to the end of the series, a failed one leaves the series
\* alone, and neither touches the latest reading or its timestamp. The three
\* kinds of step are told apart by the event they record.
C11_WriteAfterDecode ==
    [][/\ lastEvent'.kind = "message" =>
             \A message \in Payloads :
                 (JSONParse(message).ok /\ OnMessageStore(MQTT_TOPIC, message)) =>
                     /\ Len(writes') = Len(writes) + 1
                     /\ SubSeq(writes', 1, Len(writes)) = writes
                     /\ JSONParse(writes'[Len(writes')].body).value = realTimeData'
                     /\ realTimeData' = JSONParse(message).value
       /\ lastEvent'.kind = "stored" =>
             \A i \in 1..MaxWrites, ts \in ServerTimestamps :
                 WriteThen(i, ts) =>
                     /\ Len(historicalData') = Len(historicalData) + 1
                     /\ SubSeq(historicalData', 1, Len(historicalData)) = historicalData
                     /\ historicalData'[Len(historicalData')] =
                            [timestamp |-> ts] @@ JSONParse(writes[i].body).value
                     /\ UNCHANGED <<realTimeData, lastUpdate>>
       /\ lastEvent'.kind = "storeFailed" =>
             \A i \in 1..MaxWrites :
                 WriteCatch(i) => UNCHANGED <<historicalData, realTimeData, lastUpdate>>]_vars

\* C11 witness: a write succeeded onto a fetched series; the reading still shows.
C11_Witness ==
    /\ lastEvent.kind = "stored"
    /\ Len(historicalData) = 2
    /\ historicalData[1].timestamp \notin ServerTimestamps
    /\ historicalData[2].timestamp \in ServerTimestamps
    /\ realTimeData # NULL

\* C12: whenever the Daily Summary is shown, the printed lowest, average and
\* highest temperature are in that order, and so are the printed humidity
\* figures.
C12_DisplayedOrder ==
    SummaryVisible =>
        /\ LessOrEqual(DisplayedSummary.tempMin, DisplayedSummary.tempAvg)
        /\ LessOrEqual(DisplayedSummary.tempAvg, DisplayedSummary.tempMax)
        /\ LessOrEqual(DisplayedSummary.humMin, DisplayedSummary.humAvg)
        /\ LessOrEqual(DisplayedSummary.humAvg, DisplayedSummary.humMax)

IsPermutation(s, t) ==
    /\ Len(s) = Len(t)
    /\ \E f \in [1..Len(s) -> 1..Len(s)] :
          /\ \A i, j \in 1..Len(s) : f[i] = f[j] => i = j
          /\ \A i \in 1..Len(s) : s[i] = t[f[i]]

IsAscending(s) ==
    \A i, j \in 1..Len(s) : i < j => getTime(s[i].timestamp) <= getTime(s[j].timestamp)

\* C13: the series handed to the chart is a rearrangement of the historical
\* series in ascending timestamp order, sorting it again changes nothing, and
\* a render leaves the stored series in the order it had.
C13_SortedCopy ==
    /\ [](/\ IsPermutation(sortedData, historicalData)
          /\ IsAscending(sortedData)
          /\ SortCopy(sortedData).sortedData = sortedData)
    /\ [][historicalData' # historicalData => ~Render]_vars

\* C13 witness: the stored series is out of timestamp order and the chart's is not.
C13_Witness ==
    /\ Len(historicalData) = 2
    /\ getTime(historicalData[1].timestamp) > getTime(historicalData[2].timestamp)
    /\ sortedData = <<historicalData[2], historicalData[1]>>
    /\ ENABLED Render

\* C14: the indicator shows Connected exactly when a connect or error event
\* has occurred and the latest of them was a connect; messages, queries,
\* write responses, date picks and renders in between leave it as it was.
C14_ConnectedIffLastWasConnect ==
    mqttConnected <=> lastConnectionEvent = "connect"

\* C14 witness: connect, then error, then a query failed and a malformed
\* message was handled: the indicator still shows Disconnected.
C14_Witness ==
    /\ lastConnectionEvent = "error"
    /\ subscribed # {}
    /\ ~mqttConnected
    /\ IsMalformedDelivery(lastEvent)
    /\ historicalData # <<>>

IsStoredRecord(record, body) ==
    /\ record.timestamp \in ServerTimestamps
    /\ [temperature |-> record.temperature, humidity |-> record.humidity] =
           JSONParse(body).value

\* C15: whichever write or read response resolves next, and whatever else is
\* still in flight, a successful write makes the series one record longer with
\* the series of that moment as its prefix and leaves the other requests in
\* flight, and a successful read makes the series exactly the response, so
\* none of the records appended before it remains.
C15_AppendsAndReplaces ==
    [][/\ lastEvent'.kind = "stored" =>
             \A i \in 1..MaxWrites, ts \in ServerTimestamps :
                 WriteThen(i, ts) =>
                     /\ Len(historicalData') = Len(historicalData) + 1
                     /\ SubSeq(historicalData', 1, Len(historicalData)) = historicalData
                     /\ Len(writes') = Len(writes) - 1
                     /\ reads' = reads
       /\ lastEvent'.kind = "settled" =>
             \A i \in 1..MaxReads, body \in Bodies :
                 FetchThen(i, body) =>
                     /\ historicalData' = JSONParse(body).value
                     /\ writes' = writes]_vars

\* C15 witness: two writes were in flight together and resolved in the
\* opposite order to their issue; both records are in the series.
C15_Witness ==
    /\ lastEvent.kind = "stored"
    /\ writes = <<>>
    /\ realTimeData = JSONParse(MsgB).value
    /\ Len(historicalData) = 2
    /\ IsStoredRecord(historicalData[1], MsgB)
    /\ IsStoredRecord(historicalData[2], MsgA)

====
